---- MODULE Spec2Model ----
(***************************************************************************)
(* squiflog: SYSLOG to CLEF transcoding.                                   *)
(*                                                                         *)
(* Two parts of src/data/mod.rs are modelled:                              *)
(*   - syslog::Message::into_clef followed by the serde serialization of   *)
(*     clef::Message (specification Spec);                                 *)
(*   - Data::read_as_clef called from several threads, writing to the      *)
(*     process-wide stdout (specification SpecStdout).                     *)
(***************************************************************************)
EXTENDS Integers, Sequences, FiniteSets, TLC

VARIABLES
    msg,        \* the syslog::Message handed to into_clef
    clock,      \* what Utc::now() returns when the mapper runs
    pc,         \* "parsed" -> "converted" -> "serialized"
    event,      \* Option<clef::Message>: None until into_clef has returned
    doc,        \* the JSON object serde produces: a set of <<key, value>> members
    tpc,        \* read_as_clef: per thread, the position in its call
    part,       \* read_as_clef: per thread, the pieces of its document written
    lock,       \* the stdout lock: None, or Some(t) for the thread holding it
    stream,     \* what stdout has accepted so far, in order
    results,    \* per thread, what read_as_clef returned: None, Some("Ok"), Some("Err")
    msgCount    \* the data.msg metric

clefVars == <<msg, clock, pc, event, doc>>
outVars == <<tpc, part, lock, stream, results, msgCount>>
vars == <<msg, clock, pc, event, doc, tpc, part, lock, stream, results, msgCount>>

----------------------------------------------------------------------------
(* Bounds *)

\* size of a message's structured data: its elements plus their parameters
MaxSD == 3
\* threads, each calling read_as_clef with one message
NThreads == 3
\* pieces in which serde_json::to_writer hands one document to the writer
NParts == 2

----------------------------------------------------------------------------
(* Option<T>: None is the empty sequence, Some(x) a one-element sequence. *)

None == <<>>
Some(x) == <<x>>

(* serde_json::Value, tagged so that values of different kinds compare. *)
JString(s) == <<"string", s>>
JTime(t) == <<"time", t>>
JArray(a) == <<"array", a>>
JNull == <<"null", "null">>

(* HashMap::insert: the entry of key k is created or overwritten. *)
Insert(m, k, v) == [x \in (DOMAIN m) \cup {k} |-> IF x = k THEN v ELSE m[x]]

----------------------------------------------------------------------------
(* Priority decoder (src/data/syslog.rs): lookup tables indexed from 0. *)

FacilityNames ==
    <<"kernel", "user", "mail", "daemon", "auth", "syslog", "lpr", "news",
      "uucp", "cron", "authpriv", "ftp", "ntp", "audit", "alert", "clock",
      "local0", "local1", "local2", "local3", "local4", "local5", "local6",
      "local7">>

SeverityNames ==
    <<"emergency", "alert", "critical", "error", "warning", "notice", "info",
      "debug">>

facility(priority) == FacilityNames[priority.facility + 1]
severity(priority) == SeverityNames[priority.severity + 1]

----------------------------------------------------------------------------
(* syslog::Message::into_clef *)

HeaderNames == {"hostname", "app_name", "proc_id", "message_id"}

\* additional.insert("facility", ..) and the four `if let Some(..)` inserts
InsertHeader(m, key, opt) ==
    IF opt # None THEN Insert(m, key, JString(opt[1])) ELSE m

HeaderFields(s) ==
    LET a0 == "facility" :> JString(facility(s.priority))
        a1 == InsertHeader(a0, "hostname", s.hostname)
        a2 == InsertHeader(a1, "app_name", s.app_name)
        a3 == InsertHeader(a2, "proc_id", s.proc_id)
    IN  InsertHeader(a3, "message_id", s.message_id)

\* the inner loop: one single-entry map per (k, v), pushed in order
RenderParamsMerged(params) ==
    IF params = <<>> THEN <<>>
    ELSE <<[k \in {params[i][1] : i \in 1..Len(params)} |->
              LET last == CHOOSE i \in 1..Len(params) :
                              /\ params[i][1] = k
                              /\ \A j \in (i+1)..Len(params) : params[j][1] # k
              IN  params[last][2]]>>

RenderParams(params) ==
    [i \in 1..Len(params) |-> (params[i][1] :> params[i][2])]

\* additional.insert(element.id, json!(params))
InsertElementKeepFirst(m, element) ==
    IF element.id \in DOMAIN m THEN m
    ELSE Insert(m, element.id, JArray(RenderParams(element.params)))

InsertElement(m, element) ==
    Insert(m, element.id, JArray(RenderParams(element.params)))

\* `for element in sd`
RECURSIVE InsertElements(_, _)
InsertElements(m, sd) ==
    IF sd = <<>> THEN m
    ELSE InsertElements(InsertElement(m, Head(sd)), Tail(sd))

\* `if let Some(sd) = structured_data`
StructuredData(m, structured_data) ==
    IF structured_data # None THEN InsertElements(m, structured_data[1]) ELSE m

\* timestamp.unwrap_or_else(|| Utc::now())
TimestampAlwaysNow(timestamp, now) == now

Timestamp(timestamp, now) ==
    IF timestamp # None THEN timestamp[1] ELSE now

\* level: Some(priority.severity())
LevelFromFacility(priority) == Some(facility(priority))

Level(priority) == Some(severity(priority))

into_clef(s, now) ==
    [ timestamp        |-> Timestamp(s.timestamp, now),
      level            |-> Level(s.priority),
      message          |-> s.message,
      message_template |-> None,
      exception        |-> None,
      additional       |-> StructuredData(HeaderFields(s), s.structured_data) ]

----------------------------------------------------------------------------
(* clef::Message as serde serializes it: the members of the JSON object.   *)
(* A flattened map entry whose key equals a renamed field yields a second  *)
(* member with that key, so the document is a set of members, not a map.   *)

OptMember(key, opt) ==
    IF opt # None THEN {<<key, JString(opt[1])>>} ELSE {}

\* #[serde(rename = "@l")] without skip_serializing_if
LevelMember(level) ==
    {<<"@l", IF level # None THEN JString(level[1]) ELSE JNull>>}

SerializeNoSkip(m) ==
    {<<"@t", JTime(m.timestamp)>>}
        \cup LevelMember(m.level)
        \cup {<<"@m", IF m.message # None THEN JString(m.message[1]) ELSE JNull>>}
        \cup OptMember("@mt", m.message_template)
        \cup OptMember("@x", m.exception)
        \cup {<<k, m.additional[k]>> : k \in DOMAIN m.additional}

Serialize(m) ==
    {<<"@t", JTime(m.timestamp)>>}
        \cup LevelMember(m.level)
        \cup OptMember("@m", m.message)
        \cup OptMember("@mt", m.message_template)
        \cup OptMember("@x", m.exception)
        \cup {<<k, m.additional[k]>> : k \in DOMAIN m.additional}

Keys(d) == {e[1] : e \in d}

----------------------------------------------------------------------------
(* Inputs of into_clef *)

Priorities == {[facility |-> 3, severity |-> 6], [facility |-> 0, severity |-> 3]}
Timestamps == {None, Some(1)}
ClockTimes == {2}
Hostnames == {None, Some("docker-desktop")}
AppNames == {None, Some("8b1089798cf8")}
ProcIds == {None, Some("1481")}
MessageIds == {None, Some("8b1089798cf8")}
Bodies == {None, Some("hello world"), Some("{\"user\":\"alice\"}")}

Ids == {"sdid1234", "hostname", "facility", "@t"}
ParamPairs == {<<"ip", "192.0.2.1">>, <<"ip", "192.0.2.129">>, <<"event", "value">>}

ParamLists(n) == UNION {[1..k -> ParamPairs] : k \in 0..n}
Elements(n) == [id : Ids, params : ParamLists(n)]

\* the vectors whose elements and parameters number at most n together
RECURSIVE SDVecsOf(_)
SDVecsOf(n) ==
    {<<>>} \cup
    (IF n = 0 THEN {}
     ELSE UNION {{<<e>> \o rest : rest \in SDVecsOf(n - 1 - Len(e.params))} :
                    e \in Elements(n - 1)})

SDVecs == SDVecsOf(MaxSD)

Messages ==
    [ priority        : Priorities,
      timestamp       : Timestamps,
      hostname        : Hostnames,
      app_name        : AppNames,
      proc_id         : ProcIds,
      message_id      : MessageIds,
      structured_data : {None} \cup {Some(sd) : sd \in SDVecs},
      message         : Bodies ]

----------------------------------------------------------------------------
(* Specification of into_clef and its serialization *)

OutIdle ==
    /\ tpc = [t \in 1..NThreads |-> "idle"]
    /\ part = [t \in 1..NThreads |-> 0]
    /\ lock = None
    /\ stream = <<>>
    /\ results = [t \in 1..NThreads |-> None]
    /\ msgCount = 0

Init ==
    /\ msg \in Messages
    /\ clock \in ClockTimes
    /\ pc = "parsed"
    /\ event = None
    /\ doc = {}
    /\ OutIdle

IntoClef ==
    /\ pc = "parsed"
    /\ event' = Some(into_clef(msg, clock))
    /\ pc' = "converted"
    /\ UNCHANGED <<msg, clock, doc>>
    /\ UNCHANGED outVars

ToJson ==
    /\ pc = "converted"
    /\ doc' = Serialize(event[1])
    /\ pc' = "serialized"
    /\ UNCHANGED <<msg, clock, event>>
    /\ UNCHANGED outVars

Next == IntoClef \/ ToJson

Spec == Init /\ [][Next]_vars

----------------------------------------------------------------------------
(* Data::read_as_clef on several threads.                                  *)
(* What a thread writes is named by the thread and the piece: pieces       *)
(* 1..NParts are the JSON document as serde_json::to_writer hands it to    *)
(* the writer, piece 0 is the trailing "\n".                               *)

Threads == 1..NThreads
Newline == 0

\* increment!(data.msg); from_bytes; into_clef; io::stdout()
Begin(t) ==
    /\ tpc[t] = "idle"
    /\ msgCount' = msgCount + 1
    /\ tpc' = [tpc EXCEPT ![t] = "locking"]
    /\ UNCHANGED <<part, lock, stream, results>>
    /\ UNCHANGED clefVars

\* stdout.lock(), taken although another thread holds it
LockNoWait(t) ==
    /\ tpc[t] = "locking"
    /\ lock' = Some(t)
    /\ tpc' = [tpc EXCEPT ![t] = "json"]
    /\ UNCHANGED <<part, stream, results, msgCount>>
    /\ UNCHANGED clefVars

\* stdout.lock(): blocks while another thread holds the lock
Lock(t) ==
    /\ tpc[t] = "locking"
    /\ lock = None
    /\ lock' = Some(t)
    /\ tpc' = [tpc EXCEPT ![t] = "json"]
    /\ UNCHANGED <<part, stream, results, msgCount>>
    /\ UNCHANGED clefVars

\* serde_json::to_writer(&mut stdout, &clef): the next piece is accepted
WriteJson(t) ==
    /\ tpc[t] = "json"
    /\ part[t] < NParts
    /\ stream' = Append(stream, [thread |-> t, piece |-> part[t] + 1])
    /\ part' = [part EXCEPT ![t] = part[t] + 1]
    /\ tpc' = [tpc EXCEPT ![t] = IF part[t] + 1 = NParts THEN "newline" ELSE "json"]
    /\ UNCHANGED <<lock, results, msgCount>>
    /\ UNCHANGED clefVars

\* the guard is dropped as the call returns
Unlock(t) == IF lock = Some(t) THEN None ELSE lock

\* serde_json::to_writer(..)? : a write fails, the call returns the error
FailJson(t) ==
    /\ tpc[t] = "json"
    /\ results' = [results EXCEPT ![t] = Some("Err")]
    /\ lock' = Unlock(t)
    /\ tpc' = [tpc EXCEPT ![t] = "done"]
    /\ UNCHANGED <<part, stream, msgCount>>
    /\ UNCHANGED clefVars

\* stdout.write_all(b"\n")
WriteNewline(t) ==
    /\ tpc[t] = "newline"
    /\ stream' = Append(stream, [thread |-> t, piece |-> Newline])
    /\ tpc' = [tpc EXCEPT ![t] = "return"]
    /\ UNCHANGED <<part, lock, results, msgCount>>
    /\ UNCHANGED clefVars

\* stdout.write_all(b"\n")? : the write fails, the call returns the error
FailNewline(t) ==
    /\ tpc[t] = "newline"
    /\ results' = [results EXCEPT ![t] = Some("Err")]
    /\ lock' = Unlock(t)
    /\ tpc' = [tpc EXCEPT ![t] = "done"]
    /\ UNCHANGED <<part, stream, msgCount>>
    /\ UNCHANGED clefVars

\* Ok(())
Return(t) ==
    /\ tpc[t] = "return"
    /\ results' = [results EXCEPT ![t] = Some("Ok")]
    /\ lock' = Unlock(t)
    /\ tpc' = [tpc EXCEPT ![t] = "done"]
    /\ UNCHANGED <<part, stream, msgCount>>
    /\ UNCHANGED clefVars

InitStdout ==
    /\ msg = [ priority |-> [facility |-> 3, severity |-> 6],
               timestamp |-> Some(1),
               hostname |-> Some("docker-desktop"),
               app_name |-> Some("8b1089798cf8"),
               proc_id |-> Some("1481"),
               message_id |-> Some("8b1089798cf8"),
               structured_data |-> None,
               message |-> Some("hello world") ]
    /\ clock = 2
    /\ pc = "parsed"
    /\ event = None
    /\ doc = {}
    /\ OutIdle

NextStdout ==
    \E t \in Threads :
        \/ Begin(t)
        \/ Lock(t)
        \/ WriteJson(t)
        \/ FailJson(t)
        \/ WriteNewline(t)
        \/ FailNewline(t)
        \/ Return(t)

SpecStdout == InitStdout /\ [][NextStdout]_vars

----------------------------------------------------------------------------
(* What the properties below speak about *)

Converted == pc # "parsed"
Serialized == pc = "serialized"

\* the additional map of the event into_clef returned
Additional == event[1].additional

\* the structured-data elements of the input, in order
SD == IF msg.structured_data = None THEN <<>> ELSE msg.structured_data[1]

HeaderValue(h) ==
    CASE h = "hostname"   -> msg.hostname
      [] h = "app_name"   -> msg.app_name
      [] h = "proc_id"    -> msg.proc_id
      [] h = "message_id" -> msg.message_id

PresentHeaders == {h \in HeaderNames : HeaderValue(h) # None}
HeaderKeys == HeaderNames \cup {"facility"}
PresentHeaderKeys == PresentHeaders \cup {"facility"}

HeaderJson(k) ==
    IF k = "facility" THEN JString(facility(msg.priority))
    ELSE JString(HeaderValue(k)[1])

Prefixed(k) ==
    CASE k = "hostname"   -> "__hostname"
      [] k = "app_name"   -> "__app_name"
      [] k = "proc_id"    -> "__proc_id"
      [] k = "message_id" -> "__message_id"
      [] k = "facility"   -> "__facility"

ReservedKeys == {"@t", "@l", "@m", "@mt", "@x", "@i", "@r"}

\* v is the array of Len(params) single-key objects, the i-th {key_i: value_i}
IsRendering(v, params) ==
    /\ v[1] = "array"
    /\ Len(v[2]) = Len(params)
    /\ \A i \in 1..Len(params) :
          /\ DOMAIN v[2][i] = {params[i][1]}
          /\ v[2][i][params[i][1]] = params[i][2]

\* no later element of the message bears the id of the i-th
LastWithId(i) == \A j \in (i + 1)..Len(SD) : SD[j].id # SD[i].id

LastIndex(id) == CHOOSE i \in 1..Len(SD) : SD[i].id = id /\ LastWithId(i)

SDIds == {SD[i].id : i \in 1..Len(SD)}

\* what a body holds when it parses as a JSON object (serde_json::from_str)
EmbeddedJson(text) ==
    IF text = "{\"user\":\"alice\"}" THEN Some("user" :> JString("alice"))
    ELSE None

----------------------------------------------------------------------------
(* C1: a structured-data element whose id is the name of a present header  *)
(* field leaves the header's value under the plain key and the element's   *)
(* rendered parameter list under the key prefixed with "__".               *)
C1_ConflictPrefixed ==
    Converted =>
        \A i \in 1..Len(SD) :
            SD[i].id \in PresentHeaderKeys =>
                /\ Additional[SD[i].id] = HeaderJson(SD[i].id)
                /\ Prefixed(SD[i].id) \in DOMAIN Additional
                /\ IsRendering(Additional[Prefixed(SD[i].id)], SD[i].params)

(* C2: the additional map never holds a CLEF-reserved key.                 *)
C2_NoReservedKeys ==
    Converted => (DOMAIN Additional) \cap ReservedKeys = {}

(* C3: a body that parses as a JSON object has its top-level keys in the   *)
(* additional map, and @m is absent.                                       *)
C3_EmbeddedJsonExtracted ==
    Converted =>
        \A b \in {msg.message} \ {None} :
            EmbeddedJson(b[1]) # None =>
                /\ event[1].message = None
                /\ \A k \in DOMAIN EmbeddedJson(b[1])[1] :
                      /\ k \in DOMAIN Additional
                      /\ Additional[k] = EmbeddedJson(b[1])[1][k]

C5_PresentHeaderKept ==
    Serialized =>
        \A h \in PresentHeaders :
            {e \in doc : e[1] = h} = {<<h, JString(HeaderValue(h)[1])>>}

(* C6: with no structured data and no body the output is exactly @t, @l,   *)
(* facility and the present header fields, each with the source value.     *)
C6_NoExtraneousKeys ==
    (Serialized /\ SD = <<>> /\ msg.message = None) =>
        /\ Keys(doc) = {"@t", "@l", "facility"} \cup PresentHeaders
        /\ doc = {<<"@t", JTime(event[1].timestamp)>>,
                  <<"@l", JString(severity(msg.priority))>>,
                  <<"facility", JString(facility(msg.priority))>>}
                 \cup {<<h, JString(HeaderValue(h)[1])>> : h \in PresentHeaders}

C6_Witness ==
    /\ Serialized
    /\ SD = <<>>
    /\ msg.message = None
    /\ PresentHeaders = {"hostname", "proc_id"}
    /\ Cardinality(doc) = 5

C10_LastElementWins ==
    Converted =>
        \A i \in 1..Len(SD) : \A j \in (i + 1)..Len(SD) :
            (SD[i].id = SD[j].id /\ SD[i].id \notin HeaderKeys) =>
                /\ SD[i].id \in DOMAIN Additional
                /\ IsRendering(Additional[SD[i].id],
                               SD[LastIndex(SD[i].id)].params)
                /\ \A k \in (DOMAIN Additional) \ {SD[i].id} :
                      IF k \in SDIds
                      THEN IsRendering(Additional[k], SD[LastIndex(k)].params)
                      ELSE k \in PresentHeaderKeys /\ Additional[k] = HeaderJson(k)

C10_Witness ==
    /\ Converted
    /\ \E i \in 1..Len(SD) : \E j \in (i + 1)..Len(SD) :
          /\ SD[i].id = SD[j].id
          /\ SD[i].id \notin HeaderKeys
          /\ SD[i].params # SD[j].params
          /\ IsRendering(Additional[SD[i].id], SD[j].params)

----------------------------------------------------------------------------
(* What the stdout properties speak about *)

\* the pieces of one whole output line, in order: the document, then "\n"
WholeLine == [i \in 1..(NParts + 1) |-> IF i <= NParts THEN i ELSE Newline]

IsThread(t, e) == e.thread = t

\* the pieces thread t has in the stream, in stream order
Pieces(t) ==
    LET own == SelectSeq(stream, LAMBDA e : IsThread(t, e))
    IN  [i \in 1..Len(own) |-> own[i].piece]

IsPrefix(a, b) ==
    /\ Len(a) <= Len(b)
    /\ \A i \in 1..Len(a) : a[i] = b[i]

\* nothing of another thread lies between two pieces of thread t
Contiguous(t) ==
    \A i \in 1..Len(stream) : \A j \in (i + 1)..Len(stream) :
        (stream[i].thread = t /\ stream[j].thread = t) =>
            \A k \in i..j : stream[k].thread = t

\* the stream is whole lines, one after the other
OnlyWholeLines ==
    /\ Len(stream) % (NParts + 1) = 0
    /\ \A b \in 0..((Len(stream) \div (NParts + 1)) - 1) :
          \A i \in 1..(NParts + 1) :
              /\ stream[b * (NParts + 1) + i].thread
                     = stream[b * (NParts + 1) + 1].thread
              /\ stream[b * (NParts + 1) + i].piece = WholeLine[i]

\* one line per call that returned Ok, and no other
OneLinePerOk ==
    /\ {stream[i].thread : i \in 1..Len(stream)}
           = {t \in Threads : results[t] = Some("Ok")}
    /\ \A t \in Threads : results[t] = Some("Ok") => Pieces(t) = WholeLine

====
